---- MODULE Spec2Model ----
(***************************************************************************)
(* Model of src/rpi/amherst_2005.py: L298N turnout switches driven from    *)
(* push buttons through RPi.GPIO.                                          *)
(*                                                                         *)
(* Threads.  The main thread builds the switches one after the other       *)
(* (lines 154-159) and then sleeps for ever (lines 161-162).  RPi.GPIO     *)
(* runs every callback registered with add_event_detect on ONE background  *)
(* thread: an edge on a pin with edge detection is remembered by the       *)
(* kernel until that thread comes back to wait for events, and callbacks   *)
(* therefore run one after the other.  remove_event_detect forgets the     *)
(* pin's registration, the remembered edge and the time of the last        *)
(* accepted edge; add_event_detect starts a fresh registration.            *)
(*                                                                         *)
(* Time passes in Tick steps of one millisecond; every other step takes no *)
(* time, and time.sleep returns at or after its deadline.  The model keeps *)
(* durations, not dates: the time left to sleep, and the time since an     *)
(* edge was accepted.  The library's copy of that time stops counting at   *)
(* AgeCap, the history copy at debounce_ms, the value it is compared with. *)
(***************************************************************************)
EXTENDS Integers, FiniteSets, Sequences, TLC

\* ---------------------------------------------------------------- bounds
MaxToggles == 2
AgeCap == 3

\* ------------------------------------------------------------- constants
TURN == 0
STRAIGHT == 1
SwitchPosition == {TURN, STRAIGHT}
EventEdge == {"FALLING", "RISING", "BOTH"}

Switches == {1, 2}
Pins == 1..8
NoDetect == [armed |-> FALSE]
NoCall == -1
NoState == -1

\* The configurations of a run.  Between them they have every initial_state,
\* every event_edge, and a strobe both longer and shorter than the debounce
\* window.  The pins of two switches are disjoint.
Profiles ==
    { [initial_state |-> TURN, event_edge |-> "RISING", debounce_ms |-> 1, strobe_ms |-> 2],
      [initial_state |-> STRAIGHT, event_edge |-> "RISING", debounce_ms |-> 2, strobe_ms |-> 1],
      [initial_state |-> STRAIGHT, event_edge |-> "FALLING", debounce_ms |-> 1, strobe_ms |-> 2],
      [initial_state |-> TURN, event_edge |-> "BOTH", debounce_ms |-> 2, strobe_ms |-> 1] }

L298NSwitchSettings(c) ==
    { [initial_state |-> f.initial_state, debounce_ms |-> f.debounce_ms,
       event_edge |-> f.event_edge, strobe_ms |-> f.strobe_ms, name |-> c,
       pin_enable |-> 4 * c - 3, pin_turn |-> 4 * c - 2,
       pin_straight |-> 4 * c - 1, pin_button |-> 4 * c] : f \in Profiles }

VARIABLES
    cfg,        \* cfg[c]: the validated settings of switch c
    msw,        \* main thread: the switch under construction (3 = all built)
    mpc,        \* main thread: the line it is about to execute
    state,      \* state[c]: L298NSwitch.__state
    mode,       \* mode[p]: GPIO.setup direction of pin p
    level,      \* level[p]: output level of pin p
    button,     \* button[p]: electrical level of the button line on pin p
    detect,     \* detect[p]: RPi.GPIO edge-detection registration of pin p
    pending,    \* pending[p]: an edge on p waits for the callback thread
    tpc,        \* tpc[c]: line of __toggle the callback thread is at, or "none"
    inflight,   \* inflight[c]: invocations of __toggle that have not returned
    wake,       \* wake[c]: milliseconds left before the strobe sleep may return
    accepted,   \* accepted[c]: edges that started __toggle (history)
    lastAccept, \* lastAccept[c]: milliseconds since the last accepted edge,
                \* counted up to debounce_ms (history)
    gap,        \* gap[c]: lastAccept[c] when the latest edge was accepted (history)
    midStrobe,  \* midStrobe[c]: what became of edges emitted while disarmed
    log         \* log[c]: the events switch c has sent to the logger, in order

vars == <<cfg, msw, mpc, state, mode, level, button, detect, pending, tpc,
          inflight, wake, accepted, lastAccept, gap, midStrobe, log>>

hist == <<accepted, lastAccept, gap, midStrobe>>

\* ------------------------------------------------------------ GPIO layer
\* GPIO.output(pin, value)
output(p, v) == level' = [level EXCEPT ![p] = v]

\* GPIO.add_event_detect(pin, edge, callback=sw.__toggle, bouncetime=bt)
add_event_detect(p, e, sw, bt) ==
    detect' = [detect EXCEPT ![p] =
                 [armed |-> TRUE, edge |-> e, sw |-> sw, bouncetime |-> bt,
                  lastcall |-> NoCall]]

\* GPIO.remove_event_detect(pin)
remove_event_detect(p) ==
    /\ detect' = [detect EXCEPT ![p] = NoDetect]
    /\ pending' = [pending EXCEPT ![p] = FALSE]

Armed(c) == detect[cfg[c].pin_button].armed

ThreadIdle == \A c \in Switches : tpc[c] = "none"

\* ------------------------------------------------------- L298NSwitch
\* self.state ^= 1
\* Mutant: the position is or-ed with 1 instead of xor-ed.
flip_or(v) == 1

flip(v) == (v + 1) % 2

\* Mutant: the position is stored without the logging call.
debug_dropped(c, v) == UNCHANGED log

\* logger.debug(f'{self.config.name} -> {str(self.__state)}')
debug(c, v) ==
    log' = [log EXCEPT ![c] = Append(@, [name |-> cfg[c].name, position |-> v])]

\* state.setter
state_setter(c, v) ==
    /\ state' = [state EXCEPT ![c] = v]
    /\ debug(c, v)

\* Mutant: the enable pin is a fixed pin number, not the configured one.
enable_switch_fixed_pin(c) == output(1, TRUE)

enable_switch(c) == output(cfg[c].pin_enable, TRUE)

\* Mutant: the driver is "disabled" by writing the enable line high.
disable_switch_high(c) == output(cfg[c].pin_enable, TRUE)

disable_switch(c) == output(cfg[c].pin_enable, FALSE)

\* Mutant: the turn pin is written without the "not".
set_direction_turn_plain(c) == output(cfg[c].pin_turn, state[c] # 0)

\* __set_direction_pins, first write
set_direction_turn(c) == output(cfg[c].pin_turn, state[c] = 0)

\* __set_direction_pins, second write
set_direction_straight(c) == output(cfg[c].pin_straight, state[c] # 0)

enable_button_interrupt(c) ==
    add_event_detect(cfg[c].pin_button, "RISING", c, cfg[c].debounce_ms)

\* Mutant: the interrupt stays armed during the toggle.
disable_button_interrupt_skipped(c) == UNCHANGED <<detect, pending>>

disable_button_interrupt(c) == remove_event_detect(cfg[c].pin_button)

strobe_deadline(c) == cfg[c].strobe_ms

Built(c) == msw > c

\* ------------------------------------------------------------------ Init
\* The program before the first switch is built: lines 154-155.
Start ==
    /\ msw = 1
    /\ mpc = "c62"
    /\ state = [c \in Switches |-> NoState]
    /\ mode = [p \in Pins |-> "unset"]
    /\ level = [p \in Pins |-> FALSE]
    /\ button = [p \in Pins |-> TRUE]
    /\ detect = [p \in Pins |-> NoDetect]
    /\ pending = [p \in Pins |-> FALSE]
    /\ tpc = [c \in Switches |-> "none"]
    /\ inflight = [c \in Switches |-> 0]
    /\ wake = [c \in Switches |-> 0]
    /\ accepted = [c \in Switches |-> 0]
    /\ lastAccept = [c \in Switches |-> NoCall]
    /\ gap = [c \in Switches |-> NoCall]
    /\ midStrobe = [c \in Switches |-> "none"]
    /\ log = [c \in Switches |-> <<>>]

Init ==
    /\ cfg \in [Switches -> UNION {L298NSwitchSettings(c) : c \in Switches}]
    /\ \A c \in Switches : cfg[c] \in L298NSwitchSettings(c)
    /\ Start

\* Configuration files the loop of lines 155-159 accepts although the second
\* record repeats the name or the enable pin of the first: nothing in
\* L298NSwitchSettings or in the loop compares one record with another.
DuplicateSettings(first) ==
    { [s EXCEPT !.name = first.name] : s \in L298NSwitchSettings(2) }
        \cup { [s EXCEPT !.pin_enable = first.pin_enable] : s \in L298NSwitchSettings(2) }

InitDup ==
    /\ cfg \in [Switches -> UNION {L298NSwitchSettings(c) \cup DuplicateSettings(f) :
                                       c \in Switches, f \in L298NSwitchSettings(1)}]
    /\ cfg[1] \in L298NSwitchSettings(1)
    /\ cfg[2] \in DuplicateSettings(cfg[1])
    /\ Start

\* ----------------------------------------------------- main thread steps
MainStep(from, to) == msw \in Switches /\ mpc = from /\ mpc' = to /\ msw' = msw

\* __init__: self.state = self.config.initial_state
InitState ==
    /\ MainStep("c62", "c90")
    /\ state_setter(msw, cfg[msw].initial_state)
    /\ UNCHANGED <<cfg, mode, level, button, detect, pending, tpc, inflight,
                   wake, hist>>

\* __init_pins: GPIO.setup(pin_button, GPIO.IN, pull_up_down=GPIO.PUD_UP)
SetupButton ==
    /\ MainStep("c90", "c91")
    /\ mode' = [mode EXCEPT ![cfg[msw].pin_button] = "in"]
    /\ UNCHANGED <<cfg, state, level, button, detect, pending, tpc, inflight,
                   wake, hist, log>>

\* GPIO.setup(pin, GPIO.OUT): no initial value is given, so the pin drives
\* whatever its output latch holds.
setup_out(p) ==
    /\ mode' = [mode EXCEPT ![p] = "out"]
    /\ \E v \in BOOLEAN : level' = [level EXCEPT ![p] = v]

SetupEnable ==
    /\ MainStep("c91", "c92")
    /\ setup_out(cfg[msw].pin_enable)
    /\ UNCHANGED <<cfg, state, button, detect, pending, tpc, inflight,
                   wake, hist, log>>

SetupStraight ==
    /\ MainStep("c92", "c93")
    /\ setup_out(cfg[msw].pin_straight)
    /\ UNCHANGED <<cfg, state, button, detect, pending, tpc, inflight,
                   wake, hist, log>>

SetupTurn ==
    /\ MainStep("c93", "c95")
    /\ setup_out(cfg[msw].pin_turn)
    /\ UNCHANGED <<cfg, state, button, detect, pending, tpc, inflight,
                   wake, hist, log>>

\* __init_pins: self.__disable_switch()
InitDisable ==
    /\ MainStep("c95", "c96a")
    /\ disable_switch(msw)
    /\ UNCHANGED <<cfg, state, mode, button, detect, pending, tpc, inflight,
                   wake, hist, log>>

\* __init_pins: self.__set_direction_pins(), write to pin_turn
InitTurnPin ==
    /\ MainStep("c96a", "c96b")
    /\ set_direction_turn(msw)
    /\ UNCHANGED <<cfg, state, mode, button, detect, pending, tpc, inflight,
                   wake, hist, log>>

\* __init_pins: self.__set_direction_pins(), write to pin_straight
InitStraightPin ==
    /\ MainStep("c96b", "c65")
    /\ set_direction_straight(msw)
    /\ UNCHANGED <<cfg, state, mode, button, detect, pending, tpc, inflight,
                   wake, hist, log>>

\* __init__: self.__enable_button_interrupt(); then the next switch of the
\* loop of lines 155-159, or the idle loop of lines 161-162
InitArm ==
    /\ msw \in Switches
    /\ mpc = "c65"
    /\ enable_button_interrupt(msw)
    /\ msw' = msw + 1
    /\ mpc' = IF msw + 1 \in Switches THEN "c62" ELSE "loop"
    /\ UNCHANGED <<cfg, state, mode, level, button, pending, tpc, inflight,
                   wake, hist, log>>

\* ------------------------------------------------------------ environment
\* The button line of switch c changes level.  The edge is remembered only
\* if the pin has edge detection of that kind.
EdgeKind(p) == IF button[p] THEN "FALLING" ELSE "RISING"

Caught(p) == detect[p].armed /\ detect[p].edge \in {EdgeKind(p), "BOTH"}

InWindow(c) == tpc[c] \in {"t111", "t112", "t113a", "t113b", "t114", "strobe", "t115", "t116"}

ButtonEdge(c) ==
    LET p == cfg[c].pin_button IN
    /\ accepted[c] < MaxToggles
    /\ button' = [button EXCEPT ![p] = ~button[p]]
    /\ pending' = [pending EXCEPT ![p] = pending[p] \/ Caught(p)]
    /\ midStrobe' = [midStrobe EXCEPT ![c] =
                       IF ~InWindow(c) THEN midStrobe[c]
                       ELSE IF Caught(p) THEN "caught"
                       ELSE IF midStrobe[c] = "caught" THEN "caught" ELSE "dropped"]
    /\ UNCHANGED <<cfg, msw, mpc, state, mode, level, detect, tpc, inflight,
                   wake, accepted, lastAccept, gap, log>>

Older(t, cap) == IF t = NoCall THEN NoCall ELSE IF t < cap THEN t + 1 ELSE cap

Tick ==
    /\ wake' = [c \in Switches |-> IF wake[c] > 0 THEN wake[c] - 1 ELSE 0]
    /\ lastAccept' = [c \in Switches |-> Older(lastAccept[c], cfg[c].debounce_ms)]
    /\ detect' = [p \in Pins |->
                    IF detect[p].armed
                    THEN [detect[p] EXCEPT !.lastcall = Older(detect[p].lastcall, AgeCap)]
                    ELSE detect[p]]
    /\ UNCHANGED <<cfg, msw, mpc, state, mode, level, button, pending,
                   tpc, inflight, accepted, gap, midStrobe, log>>

\* ------------------------------------------------- callback thread steps
\* The callback thread takes a remembered edge.  It calls the callback
\* unless the edge falls within bouncetime of the last accepted one.
PassesBounce(g) == g.lastcall = NoCall \/ g.lastcall > g.bouncetime

CallbackThreadFree(p) == ThreadIdle

Dispatch(p) ==
    /\ CallbackThreadFree(p)
    /\ detect[p].armed
    /\ pending[p]
    /\ pending' = [pending EXCEPT ![p] = FALSE]
    /\ LET g == detect[p]
           c == g.sw IN
       IF PassesBounce(g)
       THEN /\ detect' = [detect EXCEPT ![p].lastcall = 0]
            /\ tpc' = [tpc EXCEPT ![c] = "t110"]
            /\ inflight' = [inflight EXCEPT ![c] = inflight[c] + 1]
            /\ accepted' = [accepted EXCEPT ![c] = accepted[c] + 1]
            /\ lastAccept' = [lastAccept EXCEPT ![c] = 0]
            /\ gap' = [gap EXCEPT ![c] =
                         lastAccept[c]]
            /\ midStrobe' = [midStrobe EXCEPT ![c] = "none"]
       ELSE UNCHANGED <<detect, tpc, inflight, accepted, lastAccept, gap, midStrobe>>
    /\ UNCHANGED <<cfg, msw, mpc, state, mode, level, button, wake, log>>

ToggleStep(c, from, to) == tpc[c] = from /\ tpc' = [tpc EXCEPT ![c] = to]

\* Mutant: __toggle does not disarm the interrupt.
ToggleDisarm_skipped(c) ==
    /\ ToggleStep(c, "t110", "t111")
    /\ UNCHANGED <<cfg, msw, mpc, state, mode, level, button, detect, pending,
                   inflight, wake, hist, log>>

\* __toggle: self.__disable_button_interrupt()
ToggleDisarm(c) ==
    /\ ToggleStep(c, "t110", "t111")
    /\ disable_button_interrupt(c)
    /\ UNCHANGED <<cfg, msw, mpc, state, mode, level, button, inflight,
                   wake, hist, log>>

\* Mutant: the position is not updated before the driver is enabled.
ToggleFlip_deferred(c) ==
    /\ ToggleStep(c, "t111", "t112")
    /\ UNCHANGED <<cfg, msw, mpc, state, mode, level, button, detect, pending,
                   inflight, wake, hist, log>>

\* __toggle: self.state ^= 1
ToggleFlip(c) ==
    /\ ToggleStep(c, "t111", "t112")
    /\ state_setter(c, flip(state[c]))
    /\ UNCHANGED <<cfg, msw, mpc, mode, level, button, detect, pending,
                   inflight, wake, hist>>

\* __toggle: self.__enable_switch()
ToggleEnable(c) ==
    /\ ToggleStep(c, "t112", "t113a")
    /\ enable_switch(c)
    /\ UNCHANGED <<cfg, msw, mpc, state, mode, button, detect, pending,
                   inflight, wake, hist, log>>

\* __toggle: self.__set_direction_pins(), write to pin_turn
ToggleTurnPin(c) ==
    /\ ToggleStep(c, "t113a", "t113b")
    /\ set_direction_turn(c)
    /\ UNCHANGED <<cfg, msw, mpc, state, mode, button, detect, pending,
                   inflight, wake, hist, log>>

\* __toggle: self.__set_direction_pins(), write to pin_straight
ToggleStraightPin(c) ==
    /\ ToggleStep(c, "t113b", "t114")
    /\ set_direction_straight(c)
    /\ UNCHANGED <<cfg, msw, mpc, state, mode, button, detect, pending,
                   inflight, wake, hist, log>>

\* Mutant: the interrupt is armed again before the strobe, not after it.
StrobeBegin_rearmed(c) ==
    /\ ToggleStep(c, "t114", "strobe")
    /\ wake' = [wake EXCEPT ![c] = strobe_deadline(c)]
    /\ enable_button_interrupt(c)
    /\ UNCHANGED <<cfg, msw, mpc, state, mode, level, button, pending,
                   inflight, hist, log>>

\* __toggle: self.__strobe(), time.sleep begins
StrobeBegin(c) ==
    /\ ToggleStep(c, "t114", "strobe")
    /\ wake' = [wake EXCEPT ![c] = strobe_deadline(c)]
    /\ UNCHANGED <<cfg, msw, mpc, state, mode, level, button, detect, pending,
                   inflight, hist, log>>

\* __strobe: time.sleep returns
StrobeEnd(c) ==
    /\ ToggleStep(c, "strobe", "t115")
    /\ wake[c] = 0
    /\ UNCHANGED <<wake>>
    /\ UNCHANGED <<cfg, msw, mpc, state, mode, level, button, detect, pending,
                   inflight, hist, log>>

\* Mutant: the driver is not disabled after the strobe.
ToggleDisable_forgotten(c) ==
    /\ ToggleStep(c, "t115", "t116")
    /\ UNCHANGED <<cfg, msw, mpc, state, mode, level, button, detect, pending,
                   inflight, wake, hist, log>>

\* __toggle: self.__disable_switch()
ToggleDisable(c) ==
    /\ ToggleStep(c, "t115", "t116")
    /\ disable_switch(c)
    /\ UNCHANGED <<cfg, msw, mpc, state, mode, button, detect, pending,
                   inflight, wake, hist, log>>

\* Mutant: the callback returns without arming the interrupt again.
ToggleRearm_skipped(c) ==
    /\ ToggleStep(c, "t116", "none")
    /\ inflight' = [inflight EXCEPT ![c] = inflight[c] - 1]
    /\ UNCHANGED <<cfg, msw, mpc, state, mode, level, button, detect, pending,
                   wake, hist, log>>

\* __toggle: self.__enable_button_interrupt(), and the callback returns
ToggleRearm(c) ==
    /\ ToggleStep(c, "t116", "none")
    /\ enable_button_interrupt(c)
    /\ inflight' = [inflight EXCEPT ![c] = inflight[c] - 1]
    /\ UNCHANGED <<cfg, msw, mpc, state, mode, level, button, pending,
                   wake, hist, log>>

\* A GPIO.output of __toggle raises: nothing catches it in __toggle, so the
\* callback ends there and the callback thread goes back to waiting.
WriteFails(c) ==
    /\ tpc[c] \in {"t112", "t113a", "t113b", "t115"}
    /\ tpc' = [tpc EXCEPT ![c] = "none"]
    /\ inflight' = [inflight EXCEPT ![c] = inflight[c] - 1]
    /\ UNCHANGED <<cfg, msw, mpc, state, mode, level, button, detect, pending,
                   wake, hist, log>>

\* A termination signal reaches the process.  The idle loop of lines 161-162
\* installs no handler and nothing calls GPIO.cleanup, so the process ends
\* where it is: both threads stop wherever they are, the edge-detection
\* registrations go with the process, and the output pins keep the levels
\* last written to them.
Terminate ==
    /\ mpc # "exited"
    /\ mpc' = "exited"
    /\ detect' = [p \in Pins |-> NoDetect]
    /\ pending' = [p \in Pins |-> FALSE]
    /\ tpc' = [c \in Switches |-> "none"]
    /\ inflight' = [c \in Switches |-> 0]
    /\ wake' = [c \in Switches |-> 0]
    /\ UNCHANGED <<cfg, msw, state, mode, level, button, hist, log>>

\* ------------------------------------------------------- specifications
Construct ==
    \/ InitState
    \/ SetupButton
    \/ SetupEnable
    \/ SetupStraight
    \/ SetupTurn
    \/ InitDisable
    \/ InitTurnPin
    \/ InitStraightPin
    \/ InitArm

Toggle(c) ==
    \/ ToggleDisarm(c)
    \/ ToggleFlip(c)
    \/ ToggleEnable(c)
    \/ ToggleTurnPin(c)
    \/ ToggleStraightPin(c)
    \/ StrobeBegin(c)
    \/ StrobeEnd(c)
    \/ ToggleDisable(c)
    \/ ToggleRearm(c)

Next ==
    \/ Construct
    \/ \E c \in Switches : ButtonEdge(c)
    \/ Tick
    \/ \E p \in Pins : Dispatch(p)
    \/ \E c \in Switches : Toggle(c)

Spec == Init /\ [][Next]_vars

\* The same program on a board whose pin writes can fail.
NextFault ==
    \/ Next
    \/ \E c \in Switches : WriteFails(c)

SpecFault == Init /\ [][NextFault]_vars

\* The same program with time that passes and a callback thread that is
\* scheduled: a step of __toggle that can be taken is taken in the end, and
\* a sleep comes to its deadline.  The two switches of these runs are
\* configured alike but for their names and pins.
InitLive ==
    /\ Init
    /\ cfg[1].initial_state = cfg[2].initial_state
    /\ cfg[1].event_edge = cfg[2].event_edge
    /\ cfg[1].debounce_ms = cfg[2].debounce_ms
    /\ cfg[1].strobe_ms = cfg[2].strobe_ms

SpecLive ==
    /\ InitLive
    /\ [][Next]_vars
    /\ WF_vars(Tick)
    /\ \A c \in Switches : WF_vars(Toggle(c))

\* The same program, ended by a termination signal at any moment.
NextShutdown ==
    \/ Next
    \/ Terminate

SpecShutdown == Init /\ [][NextShutdown]_vars

\* The same program started with a configuration file that has a duplicate.
SpecDup == InitDup /\ [][Next]_vars

\* ------------------------------------------------------------ properties
EnableLine(c) == level[cfg[c].pin_enable]

TurnPin(c) == level[cfg[c].pin_turn]

StraightPin(c) == level[cfg[c].pin_straight]

ButtonPending(c) == pending[cfg[c].pin_button]

Handling(c) == tpc[c] # "none"

SwitchPins(c) ==
    {cfg[c].pin_enable, cfg[c].pin_turn, cfg[c].pin_straight, cfg[c].pin_button}

\* The position N accepted edges lead to from the initial one.
Parity(c) == (cfg[c].initial_state + accepted[c]) % 2

\* C1: once the constructor of a switch has returned, and until its first
\* button edge is accepted, the position is the configured initial_state
\* and the enable line is low.
C1_AfterConstruction ==
    \A c \in Switches :
        Built(c) /\ accepted[c] = 0 =>
            state[c] = cfg[c].initial_state /\ ~EnableLine(c)

C1_Witness ==
    \E c \in Switches :
        Built(c) /\ accepted[c] = 0 /\ cfg[c].initial_state = STRAIGHT

\* C2 (as claimed): whenever the enable line is high during a toggle, the
\* direction pins already encode the new position: turn pin = NOT new
\* position, straight pin = new position.
C2_DirectionBeforeEnable ==
    \A c \in Switches :
        tpc[c] \in {"t113a", "t113b", "t114", "strobe", "t115"} /\ EnableLine(c) =>
            TurnPin(c) = (state[c] = TURN) /\ StraightPin(c) = (state[c] = STRAIGHT)

\* C3 (as claimed): when a toggle has ended, with or without a failed pin
\* write, the enable line is low and the button interrupt is armed.
C3_FaultLeavesSafe ==
    \A c \in Switches :
        Built(c) /\ ~Handling(c) => ~EnableLine(c) /\ Armed(c)

\* C4: an edge emitted between the disarm and the re-arm of a toggle is
\* never remembered: no edge is pending while the interrupt is disarmed, and
\* the toggle changes the position exactly once.
C4_MidStrobeEdgeDropped ==
    \A c \in Switches :
        /\ midStrobe[c] # "caught"
        /\ InWindow(c) => ~ButtonPending(c)
        /\ InWindow(c) /\ tpc[c] # "t111" => state[c] = Parity(c)

C4_Witness ==
    \E c \in Switches :
        ~Handling(c) /\ midStrobe[c] = "dropped" /\ accepted[c] = 1
            /\ state[c] = flip(cfg[c].initial_state)

\* C5: after a completed strobe the enable line is low and the interrupt is
\* armed with no debounce window running, so the next edge it detects is
\* accepted.
C5_RearmedAfterStrobe ==
    \A c \in Switches :
        accepted[c] > 0 /\ ~Handling(c) =>
            /\ ~EnableLine(c)
            /\ Armed(c)
            /\ detect[cfg[c].pin_button].lastcall = NoCall

C5_Witness ==
    \E c \in Switches : accepted[c] = 2 /\ ~Handling(c) /\ Armed(c)

\* C6: after N accepted edges the position is the initial one when N is even
\* and the other one when N is odd, and it is always TURN or STRAIGHT.
C6_ToggleParity ==
    \A c \in Switches :
        Built(c) =>
            /\ state[c] \in SwitchPosition
            /\ tpc[c] \notin {"t110", "t111"} => state[c] = Parity(c)

C6_Witness ==
    \E c \in Switches :
        /\ accepted[c] = 2 /\ ~Handling(c) /\ state[c] = cfg[c].initial_state
        /\ cfg[c].initial_state = STRAIGHT

\* C7 (as claimed): whenever the button interrupt is armed, it is armed with
\* the configured event_edge and debounce_ms.
C7_ArmedWithConfiguredEdge ==
    \A c \in Switches :
        Armed(c) =>
            /\ detect[cfg[c].pin_button].edge = cfg[c].event_edge
            /\ detect[cfg[c].pin_button].bouncetime = cfg[c].debounce_ms

\* C8 (as claimed): while one switch's handler sleeps in its strobe, an edge
\* waiting on another switch's button can be taken at once.
C8_OtherSwitchNotBlocked ==
    \A a \in Switches : \A b \in Switches \ {a} :
        tpc[a] = "strobe" /\ Armed(b) /\ ButtonPending(b) =>
            ENABLED Dispatch(cfg[b].pin_button)

\* C9: at most one invocation of __toggle per switch is in flight, and the
\* interrupt is disarmed from the disarm step until the re-arm at its end.
C9_OneHandlerInFlight ==
    \A c \in Switches :
        /\ inflight[c] <= 1
        /\ inflight[c] = 1 <=> Handling(c)
        /\ InWindow(c) => ~Armed(c)

C9_Witness ==
    \E c \in Switches :
        inflight[c] = 1 /\ tpc[c] = "strobe" /\ midStrobe[c] = "dropped"

\* C10 (as claimed): two consecutive accepted edges of one button are at
\* least debounce_ms apart.
C10_AcceptedEdgesSpaced ==
    \A c \in Switches :
        gap[c] # NoCall => gap[c] >= cfg[c].debounce_ms

\* C11 (as claimed): a second switch that repeats a pin or the name of an
\* earlier one is refused, so two armed switches never share a pin or a name.
C11_NoDuplicateArmed ==
    \A a \in Switches : \A b \in Switches \ {a} :
        Built(a) /\ Built(b) /\ Armed(a) /\ Armed(b) =>
            /\ cfg[a].name # cfg[b].name
            /\ SwitchPins(a) \cap SwitchPins(b) = {}

\* C12 (as claimed): once the process has shut down, every switch that was
\* built has its button interrupt disarmed and its enable line low.
C12_ShutdownLeavesSafe ==
    mpc = "exited" =>
        \A c \in Switches : Built(c) => ~Armed(c) /\ ~EnableLine(c)

\* C13: a switch whose handler has started always comes back to rest: the
\* handler has returned, the enable line is low and the interrupt is armed.
C13_ActuationCompletes ==
    \A c \in Switches :
        Handling(c) ~> (~Handling(c) /\ ~EnableLine(c) /\ Armed(c))

C13_Witness ==
    \E c \in Switches :
        tpc[c] = "strobe" /\ wake[c] = cfg[c].strobe_ms /\ accepted[c] = MaxToggles

\* The events switch c has logged when each toggle logs once it has passed
\* the lines of __toggle in notYet.
Logged(c, notYet) == 1 + accepted[c] - (IF tpc[c] \in notYet THEN 1 ELSE 0)

LogFollowsState(c, notYet) ==
    /\ state[c] = NoState <=> log[c] = <<>>
    /\ state[c] # NoState =>
          /\ Len(log[c]) = Logged(c, notYet)
          /\ log[c][1] = [name |-> cfg[c].name, position |-> cfg[c].initial_state]

\* C14 (as claimed): construction and every accepted toggle log one event,
\* and a toggle logs it with the position update of step 7, after the driver
\* has been disabled.
C14_LogAfterDisable ==
    \A c \in Switches :
        LogFollowsState(c, {"t110", "t111", "t112", "t113a", "t113b", "t114",
                            "strobe", "t115"})

\* C14 (amended): construction and every accepted toggle log one event that
\* names the switch and the new position, in the step that stores the
\* position; in a toggle that step is line 111, before the driver is enabled.
C14_LogWithStateChange ==
    \A c \in Switches :
        /\ LogFollowsState(c, {"t110", "t111"})
        /\ state[c] # NoState =>
              log[c][Len(log[c])] = [name |-> cfg[c].name, position |-> state[c]]

C14_Witness ==
    \E c \in Switches :
        tpc[c] = "t112" /\ ~EnableLine(c) /\ Len(log[c]) = 3

\* C15 (as claimed): while the enable line is high in a toggle, the position
\* is still the one before the toggle.
C15_UpdateAfterDisable ==
    \A c \in Switches :
        Handling(c) /\ EnableLine(c) => state[c] = flip(Parity(c))

\* C15 (amended): the position is changed before the enable line is driven
\* high: while the enable line is high in a toggle, the position is already
\* the new one, and it was the new one when the driver was about to be
\* enabled.
C15_UpdateBeforeEnable ==
    \A c \in Switches :
        /\ Handling(c) /\ EnableLine(c) =>
              /\ tpc[c] \in {"t113a", "t113b", "t114", "strobe", "t115"}
              /\ state[c] = Parity(c)
        /\ tpc[c] = "t112" => state[c] = Parity(c) /\ ~EnableLine(c)

C15_Witness ==
    \E c \in Switches :
        /\ tpc[c] = "strobe" /\ EnableLine(c) /\ accepted[c] = 1
        /\ state[c] = flip(cfg[c].initial_state)

DirectionFor(c, v) == TurnPin(c) = (v = TURN) /\ StraightPin(c) = (v = STRAIGHT)

\* C16: whenever the button interrupt of a switch is armed, its enable line
\* is low and its direction pins encode its position: turn pin = NOT
\* position, straight pin = position.
C16_IdleInvariant ==
    \A c \in Switches :
        Armed(c) => ~EnableLine(c) /\ DirectionFor(c, state[c])

C16_Witness ==
    \E c \in Switches :
        Armed(c) /\ ~Handling(c) /\ accepted[c] = 1 /\ state[c] = STRAIGHT
            /\ StraightPin(c) /\ ~TurnPin(c)

\* The switch the main thread is building.
Constructing(c) == msw = c /\ mpc # "c62"

\* C17 (as claimed): while a switch is being built its enable line is never
\* high, and its interrupt is armed only once its four pins are configured,
\* the enable line is low and the direction pins are driven; no toggle runs
\* on a switch that is not built.
C17_ConstructionSafe ==
    \A c \in Switches :
        /\ Constructing(c) => ~EnableLine(c) /\ ~Armed(c)
        /\ Armed(c) =>
              /\ mode[cfg[c].pin_button] = "in"
              /\ \A p \in SwitchPins(c) \ {cfg[c].pin_button} : mode[p] = "out"
        /\ Handling(c) => Built(c)

\* The steps that arm and disarm the interrupt of switch c.
ArmStep(c) == ToggleRearm(c) \/ (msw = c /\ InitArm)

DisarmStep(c) == ToggleDisarm(c)

\* C18: the interrupt of a switch is armed only when it is not armed and
\* disarmed only when it is armed.
C18_ArmDisarmAlternate ==
    [][\A c \in Switches :
          /\ ArmStep(c) => ~Armed(c) /\ Armed(c)'
          /\ DisarmStep(c) => Armed(c) /\ ~Armed(c)']_vars

C18_Witness ==
    \E c \in Switches : tpc[c] = "t116" /\ ~Armed(c) /\ accepted[c] = 2

\* What belongs to switch c alone.
Own(c) ==
    <<state[c], detect[cfg[c].pin_button], level[cfg[c].pin_enable],
      level[cfg[c].pin_turn], level[cfg[c].pin_straight]>>

\* A step of the constructor or of __toggle of switch c.
SwitchStep(c) == Toggle(c) \/ (msw = c /\ Construct)

\* C19: a step of the constructor or of the toggle of one switch leaves the
\* position, the interrupt, the enable line and the direction pins of every
\* other switch as they were.
C19_OtherSwitchUntouched ==
    [][\A c \in Switches : \A d \in Switches \ {c} :
          SwitchStep(c) => Own(d)' = Own(d)]_vars

C19_Witness ==
    msw = 2 /\ mpc = "c95" /\ tpc[1] = "strobe" /\ EnableLine(1)
====
